---- MODULE Spec2Model ----
(***************************************************************************)
(* TileManager (src/services/yandexMapService.ts) as driven by the Globe   *)
(* component (src/unnamed/part_000): the tile streaming and compositing    *)
(* engine.  One manager instance; image fetches are asynchronous and       *)
(* complete in any order, each completion running its promise chain        *)
(* (then / catch / finally) to the end before anything else runs.          *)
(*                                                                         *)
(* Distances are kept in units of 1/360 tile, so that centerX, distBoxX,   *)
(* distBoxY * 0.5 and dist are integers for integer longitudes.            *)
(***************************************************************************)
EXTENDS Integers, Sequences, FiniteSets

\* yandexMapService.ts:4
MAX_CONCURRENT_REQUESTS == 4

\* Zoom of the modelled target grid (the deployment uses targetZoom = 3).
ModelZoom == 1

\* readonly targetZoom = 3: the deployed grid has 8 x 8 slots.
targetZoom == 3

\* targetZoom - baseZoom (3 - 2): the base layer is one level coarser.
ZoomGap == 1

\* Viewpoint longitudes handed to update(), in degrees: centerX = 0 and
\* centerX = numTilesX / 2.
Lons == {-180, 0}

VARIABLES
    numTilesX,       \* TileManager.numTilesX: tiles per side of the target grid
    tilesLoaded,     \* TileManager.tilesLoaded: flat array, index = y * numTilesX + x
    activeRequests,  \* TileManager.activeRequests
    queue,           \* TileManager.queue: sequence of TileRequest
    isDestroyed,     \* TileManager.isDestroyed
    canvas,          \* what each target-zoom rectangle of the canvas shows
    inflight,        \* pending loadImage promises of processQueue, per slot
    baseState,       \* loadBaseLayer: "idle", "loading", "resolved"
    basePending,     \* pending loadImage promises of loadBaseLayer (base tiles)
    fx               \* what the last step did: the operation, whether the fetch
                     \* succeeded, the rectangles drawn, the onTextureUpdate calls

vars == <<numTilesX, tilesLoaded, activeRequests, queue, isDestroyed, canvas,
          inflight, baseState, basePending, fx>>

RECURSIVE Pow2(_)
Pow2(z) == IF z = 0 THEN 1 ELSE 2 * Pow2(z - 1)

Abs(v) == IF v < 0 THEN -v ELSE v

\* The flat indices of the scaled-down grid of 2^ModelZoom tiles per side.
ModelSlots == 0 .. (Pow2(ModelZoom) * Pow2(ModelZoom) - 1)

\* Slots of the target grid, by flat index.
Slots == 0 .. (numTilesX * numTilesX - 1)

Index(x, y) == y * numTilesX + x

SlotX(i) == i % numTilesX

SlotY(i) == i \div numTilesX

\* loadBaseLayer: n = 2^baseZoom base tiles per side, each drawn over
\* scale x scale target rectangles.
scale == Pow2(ZoomGap)

BaseSide == numTilesX \div scale

BaseTiles == 0 .. (BaseSide * BaseSide - 1)

\* Target slots under base tile b = (bx, by): destination x*drawSize, y*drawSize.
Covered(b) ==
    LET bx == b % BaseSide
        by == b \div BaseSide
    IN  {i \in Slots : SlotX(i) \div scale = bx /\ SlotY(i) \div scale = by}

(***************************************************************************)
(* update(): priority arithmetic                                           *)
(***************************************************************************)

\* centerX * 360: normalizedLon = frac((lon + 180) / 360), times numTilesX.
CenterX(lon) == ((lon + 180) % 360) * numTilesX

\* distBoxX * 360, with the horizontal wrap.
DistBoxX(x, cx) ==
    LET d == Abs(x * 360 - cx)
    IN  IF d > numTilesX * 180 THEN numTilesX * 360 - d ELSE d

\* distBoxY * 0.5 * 360, distBoxY = |y - numTilesX/2 - 0.5|.
HalfDistBoxY(y) == 90 * Abs(2 * y - numTilesX - 1)

\* dist * 360
Dist(x, y, cx) == DistBoxX(x, cx) + HalfDistBoxY(y)

\* Mutant of Admitted: only slots strictly inside the near half are admitted.
AdmittedNearSide(x, cx) == DistBoxX(x, cx) < numTilesX * 180

\* if (distBoxX < numTilesX / 2 + 1)
Admitted(x, cx) == DistBoxX(x, cx) < numTilesX * 180 + 360

\* Mutant of InQueue: the inQueue test is missing (nothing counts as queued).
InQueueNever(q, x, y) == FALSE

\* this.queue.some(item => item.x === x && item.y === y)
InQueue(q, x, y) == \E k \in 1 .. Len(q) : q[k].x = x /\ q[k].y = y

\* Whether update() pushes slot i, given the queue built so far.
Pushes(q, i, cx) ==
    /\ ~tilesLoaded[i]
    /\ ~InQueue(q, SlotX(i), SlotY(i))
    /\ Admitted(SlotX(i), cx)

\* The double loop of update(): y outer, x inner, i.e. ascending flat index.
RECURSIVE EnqueueMissing(_, _, _)
EnqueueMissing(i, q, cx) ==
    IF i >= numTilesX * numTilesX THEN q
    ELSE IF Pushes(q, i, cx)
         THEN EnqueueMissing(i + 1,
                  Append(q, [x |-> SlotX(i), y |-> SlotY(i),
                             dist |-> Dist(SlotX(i), SlotY(i), cx)]), cx)
         ELSE EnqueueMissing(i + 1, q, cx)

\* Mutant of Rank: a sort that is not stable, ties come out in reverse order.
RankTiesReversed(q, k) ==
    1 + Cardinality({j \in 1 .. Len(q) :
                        \/ q[j].dist < q[k].dist
                        \/ q[j].dist = q[k].dist /\ j > k})

\* Array.prototype.sort with (a, b) => a.dist - b.dist, a stable sort: the
\* place of q[k] is one more than the number of elements that sort before it,
\* those of smaller dist and those of equal dist that precede it in q.
Rank(q, k) ==
    1 + Cardinality({j \in 1 .. Len(q) :
                        \/ q[j].dist < q[k].dist
                        \/ q[j].dist = q[k].dist /\ j < k})

SortByDist(q) ==
    [r \in 1 .. Len(q) |-> q[CHOOSE k \in 1 .. Len(q) : Rank(q, k) = r]]

(***************************************************************************)
(* processQueue()                                                          *)
(***************************************************************************)

\* Mutant of MayDispatch: the window test off by one (<= for <).
MayDispatchOffByOne(q, active) == active <= MAX_CONCURRENT_REQUESTS /\ Len(q) > 0

\* Mutant of MayDispatch: the window is closed one request early.
MayDispatchShort(q, active) == active < MAX_CONCURRENT_REQUESTS - 1 /\ Len(q) > 0

\* while (this.activeRequests < MAX_CONCURRENT_REQUESTS && this.queue.length > 0)
MayDispatch(q, active) == active < MAX_CONCURRENT_REQUESTS /\ Len(q) > 0

\* The loop: shift the head, count it, start its loadImage.
RECURSIVE Drain(_, _, _)
Drain(q, active, sent) ==
    IF MayDispatch(q, active)
    THEN Drain(Tail(q), active + 1, Append(sent, Head(q)))
    ELSE [queue |-> q, activeRequests |-> active, dispatched |-> sent]

\* processQueue(): nothing once destroyed.
processQueue(q, active, destroyed) ==
    IF destroyed
    THEN [queue |-> q, activeRequests |-> active, dispatched |-> <<>>]
    ELSE Drain(q, active, <<>>)

\* Number of requests of sent that are for slot i.
Count(sent, i) ==
    Cardinality({k \in 1 .. Len(sent) : Index(sent[k].x, sent[k].y) = i})

\* The pending promises after the requests of sent were started.
Started(fl, sent) == [i \in DOMAIN fl |-> fl[i] + Count(sent, i)]

\* Nothing observed: no completion, no drawImage, no onTextureUpdate call.
NoFx == [op |-> "none", ok |-> FALSE, drew |-> {}, notified |-> 0]

(***************************************************************************)
(* Construction and mount                                                  *)
(***************************************************************************)

\* new TileManager(...) for a grid of 2^zoom tiles per side: every slot not
\* loaded, canvas filled with the background colour, nothing queued or in
\* flight.
Constructed(zoom) ==
    /\ numTilesX = Pow2(zoom)
    /\ tilesLoaded = [i \in Slots |-> FALSE]
    /\ activeRequests = 0
    /\ queue = <<>>
    /\ isDestroyed = FALSE
    /\ canvas = [i \in Slots |-> "background"]
    /\ inflight = [i \in Slots |-> 0]
    /\ baseState = "idle"
    /\ basePending = {}
    /\ fx = NoFx

Init == Constructed(ModelZoom)

\* Globe's effect calls loadBaseLayer() right after the constructor and does
\* not await it: every base tile's loadImage is started at once.
loadBaseLayer ==
    /\ baseState = "idle"
    /\ baseState' = "loading"
    /\ basePending' = BaseTiles
    /\ fx' = [NoFx EXCEPT !.op = "loadBaseLayer"]
    /\ UNCHANGED <<numTilesX, tilesLoaded, activeRequests, queue, isDestroyed,
                   canvas, inflight>>

\* Frames and the effect's cleanup come after the effect body has run.
Mounted == baseState # "idle"

(***************************************************************************)
(* update(currentLonDeg)                                                   *)
(***************************************************************************)

\* The queue after steps 2 and 3 of update().
Requeued(q, cx) ==
    CHOOSE s \in {SortByDist(e) : e \in {EnqueueMissing(0, q, cx)}} : TRUE

\* Mutant of update: the isDestroyed test at the top of update() is missing.
updateUnguarded(lon) ==
    /\ Mounted
    /\ \E s \in {Requeued(queue, CenterX(lon))} :
       \E r \in {processQueue(s, activeRequests, isDestroyed)} :
           /\ queue' = r.queue
           /\ activeRequests' = r.activeRequests
           /\ inflight' = Started(inflight, r.dispatched)
           /\ fx' = [NoFx EXCEPT !.op = "update"]
    /\ UNCHANGED <<numTilesX, tilesLoaded, isDestroyed, canvas, baseState,
                   basePending>>

update(lon) ==
    /\ Mounted
    /\ IF isDestroyed
       THEN /\ fx' = [NoFx EXCEPT !.op = "update"]
            /\ UNCHANGED <<activeRequests, queue, inflight>>
       ELSE \E s \in {Requeued(queue, CenterX(lon))} :
            \E r \in {processQueue(s, activeRequests, isDestroyed)} :
                /\ queue' = r.queue
                /\ activeRequests' = r.activeRequests
                /\ inflight' = Started(inflight, r.dispatched)
                /\ fx' = [NoFx EXCEPT !.op = "update"]
    /\ UNCHANGED <<numTilesX, tilesLoaded, isDestroyed, canvas, baseState,
                   basePending>>

(***************************************************************************)
(* Completions of processQueue's loadImage promises                        *)
(***************************************************************************)

\* Mutant of TileDraws: the isDestroyed test of the .then handler is missing.
TileDrawsUnguarded(ok) == ok

\* .then: draws and marks the slot unless destroyed.
TileDraws(ok) == ok /\ ~isDestroyed

\* Mutant of LoadedAfter: the catch handler reverts the slot to not loaded.
LoadedAfterReverting(i, ok) ==
    IF ok /\ ~isDestroyed THEN [tilesLoaded EXCEPT ![i] = TRUE]
    ELSE [tilesLoaded EXCEPT ![i] = FALSE]

\* Mutant of LoadedAfter: the .then handler draws but never marks the slot.
LoadedAfterUnmarked(i, ok) == tilesLoaded

\* The load-state table after the completion for slot i.
LoadedAfter(i, ok) ==
    IF TileDraws(ok) THEN [tilesLoaded EXCEPT ![i] = TRUE] ELSE tilesLoaded

\* One pending loadImage for slot i settles: then (ok) or catch (~ok), and
\* finally: activeRequests-- and processQueue().
tileDone(i, ok) ==
    /\ inflight[i] > 0
    /\ \E r \in {processQueue(queue, activeRequests - 1, isDestroyed)} :
           /\ tilesLoaded' = LoadedAfter(i, ok)
           /\ canvas' = IF TileDraws(ok) THEN [canvas EXCEPT ![i] = "tile"] ELSE canvas
           /\ queue' = r.queue
           /\ activeRequests' = r.activeRequests
           /\ inflight' = Started([inflight EXCEPT ![i] = @ - 1], r.dispatched)
           /\ fx' = [NoFx EXCEPT !.op = "tileDone", !.ok = ok,
                                 !.drew = IF TileDraws(ok) THEN {i} ELSE {},
                                 !.notified = IF TileDraws(ok) THEN 1 ELSE 0]
    /\ UNCHANGED <<numTilesX, isDestroyed, baseState, basePending>>

(***************************************************************************)
(* Completions of loadBaseLayer's loadImage promises                       *)
(***************************************************************************)

\* Mutant of BaseDraws: the image of a failed base fetch is drawn as well.
BaseDrawsAlways(ok) == ~isDestroyed

\* .then of loadBaseLayer: draws the base tile unless destroyed.
BaseDraws(ok) == ok /\ ~isDestroyed

\* The canvas after base tile b was drawn scaled up over its rectangle.
BaseDrawn(b) == [i \in DOMAIN canvas |-> IF i \in Covered(b) THEN "base" ELSE canvas[i]]

\* Base tile b settles; Promise.all resolves with the last one.
baseDone(b, ok) ==
    /\ b \in basePending
    /\ basePending' = basePending \ {b}
    /\ baseState' = IF basePending \ {b} = {} THEN "resolved" ELSE baseState
    /\ canvas' = IF BaseDraws(ok) THEN BaseDrawn(b) ELSE canvas
    /\ fx' = [NoFx EXCEPT !.op = "baseDone", !.ok = ok,
                          !.drew = IF BaseDraws(ok) THEN Covered(b) ELSE {},
                          !.notified = IF BaseDraws(ok) THEN 1 ELSE 0]
    /\ UNCHANGED <<numTilesX, tilesLoaded, activeRequests, queue, isDestroyed,
                   inflight>>

(***************************************************************************)
(* destroy()                                                               *)
(***************************************************************************)

\* Mutant of destroy: destroy() also resets the in-flight counter.
destroyResettingCount ==
    /\ Mounted
    /\ isDestroyed' = TRUE
    /\ queue' = <<>>
    /\ activeRequests' = 0
    /\ fx' = [NoFx EXCEPT !.op = "destroy"]
    /\ UNCHANGED <<numTilesX, tilesLoaded, canvas, inflight, baseState,
                   basePending>>

destroy ==
    /\ Mounted
    /\ isDestroyed' = TRUE
    /\ queue' = <<>>
    /\ fx' = [NoFx EXCEPT !.op = "destroy"]
    /\ UNCHANGED <<numTilesX, tilesLoaded, activeRequests, canvas, inflight,
                   baseState, basePending>>

\* getProgress()
getProgress ==
    (Cardinality({i \in Slots : tilesLoaded[i]}) * 100) \div Cardinality(Slots)

Next ==
    \/ loadBaseLayer
    \/ \E lon \in Lons : update(lon)
    \/ \E i \in Slots, ok \in BOOLEAN : tileDone(i, ok)
    \/ \E b \in BaseTiles, ok \in BOOLEAN : baseDone(b, ok)
    \/ destroy

Spec == Init /\ [][Next]_vars

(***************************************************************************)
(* Observations used by the properties                                     *)
(***************************************************************************)

\* Slot i has a request in the pending queue.
Queued(i) == InQueue(queue, SlotX(i), SlotY(i))

\* Number of loadImage promises of processQueue still pending.
RECURSIVE PendingUpTo(_)
PendingUpTo(n) == IF n < 0 THEN 0 ELSE inflight[n] + PendingUpTo(n - 1)

InFlightTotal == PendingUpTo(numTilesX * numTilesX - 1)

\* This step starts a loadImage for slot i (a completion for i may restart i).
DispatchedFor(i) ==
    \/ inflight'[i] > inflight[i]
    \/ \E ok \in BOOLEAN : tileDone(i, ok) /\ inflight'[i] = inflight[i]

\* This step draws a target-zoom tile into slot i's rectangle.
TileDrawnInto(i) == fx'.op = "tileDone" /\ i \in fx'.drew

\* No manager operation has had an effect yet besides starting the base layer.
Fresh ==
    /\ ~isDestroyed
    /\ queue = <<>>
    /\ activeRequests = 0
    /\ \A i \in Slots : ~tilesLoaded[i]

\* C1: no duplicate dispatch - no slot ever has two fetches in flight at once.
C1_NoDuplicateDispatch == \A i \in Slots : inflight[i] <= 1

\* C2: a Loaded slot is never revisited - once tilesLoaded[i] holds, no step
\* dispatches a fetch for slot i or draws a target-zoom tile into it.
C2_LoadedNeverRevisited ==
    [][\A i \in Slots : tilesLoaded[i] => ~DispatchedFor(i) /\ ~TileDrawnInto(i)]_vars

\* C3: no stale overwrites - a rectangle showing its target-zoom tile is never
\* painted over by a base-layer completion.
C3_NoStaleOverwrite ==
    [][\A i \in Slots : canvas[i] = "tile" => canvas'[i] = "tile"]_vars

\* C4: concurrency bound - neither activeRequests nor the number of fetches
\* actually pending ever exceeds MAX_CONCURRENT_REQUESTS.
C4_ConcurrencyBound ==
    /\ activeRequests <= MAX_CONCURRENT_REQUESTS
    /\ InFlightTotal <= MAX_CONCURRENT_REQUESTS

\* C4 witness: the window is full while requests are still waiting.
C4_Witness == activeRequests = MAX_CONCURRENT_REQUESTS /\ Len(queue) > 0

\* C5: monotonic loaded state - a Loaded slot stays Loaded across every step
\* (update, successful and failed completions, destroy).
C5_LoadedMonotonic ==
    [][\A i \in Slots : tilesLoaded[i] => tilesLoaded'[i]]_vars

\* C5 witness: a fetch has just failed for a manager that already holds a
\* Loaded slot while another fetch is still pending.
C5_Witness ==
    /\ fx.op = "tileDone" /\ ~fx.ok
    /\ \E i \in Slots : tilesLoaded[i]
    /\ activeRequests > 0

\* C6: destroy inertness - once destroyed, no step (in particular no fetch
\* completion, target-zoom or base, success or failure) changes the canvas or
\* the load-state table, and none calls onTextureUpdate.
C6_DestroyInert ==
    [][isDestroyed =>
          /\ canvas' = canvas
          /\ tilesLoaded' = tilesLoaded
          /\ fx'.notified = 0
          /\ fx'.drew = {}]_vars

\* C6 witness: a successful target-zoom completion was delivered after destroy().
C6_Witness == isDestroyed /\ fx.op = "tileDone" /\ fx.ok

\* C7: a failed target-zoom fetch leaves its slot NotLoaded and draws nothing,
\* and an update() of a live manager leaves every NotLoaded slot of its
\* admission window queued or being fetched.
C7_FailureReopensSlot ==
    [][/\ \A i \in Slots : tileDone(i, FALSE) =>
              ~tilesLoaded'[i] /\ canvas' = canvas /\ fx'.drew = {}
       /\ \A lon \in Lons, i \in Slots :
              (update(lon) /\ ~isDestroyed /\ ~tilesLoaded[i]
                 /\ Admitted(SlotX(i), CenterX(lon)))
              => (InQueue(queue', SlotX(i), SlotY(i)) \/ inflight'[i] > 0)]_vars

\* C9: priority freshness - after update(v) every request still waiting in the
\* queue carries the priority computed from v, and the requests the call
\* dispatches go out in ascending priority relative to v.
C9_PriorityFresh ==
    [][\A lon \in Lons : (update(lon) /\ ~isDestroyed) =>
          /\ \A k \in 1 .. Len(queue') :
                 queue'[k].dist = Dist(queue'[k].x, queue'[k].y, CenterX(lon))
          /\ \E sent \in {processQueue(Requeued(queue, CenterX(lon)),
                                       activeRequests, FALSE).dispatched} :
                 \A j, k \in 1 .. Len(sent) :
                     j < k => Dist(sent[j].x, sent[j].y, CenterX(lon))
                                <= Dist(sent[k].x, sent[k].y, CenterX(lon))]_vars

\* C10: far-side exclusion - a single update() on a fresh manager leaves at
\* least one slot neither queued nor being fetched.
C10_FarSideExcluded ==
    [][\A lon \in Lons : (update(lon) /\ Fresh) =>
          \E i \in Slots :
              ~InQueue(queue', SlotX(i), SlotY(i)) /\ inflight'[i] = 0]_vars

(***************************************************************************)
(* Liveness: a manager that is never destroyed, whose update() keeps being *)
(* called, and whose fetches all settle and do not fail for ever           *)
(***************************************************************************)

\* The mounted manager once loadBaseLayer() has resolved with every base tile
\* drawn, before the first frame: base tile b was the last to arrive.
BaseLayerDone(zoom) ==
    /\ numTilesX = Pow2(zoom)
    /\ tilesLoaded = [i \in Slots |-> FALSE]
    /\ activeRequests = 0
    /\ queue = <<>>
    /\ isDestroyed = FALSE
    /\ canvas = [i \in Slots |-> "base"]
    /\ inflight = [i \in Slots |-> 0]
    /\ baseState = "resolved"
    /\ basePending = {}
    /\ \E b \in BaseTiles :
           fx = [NoFx EXCEPT !.op = "baseDone", !.ok = TRUE,
                             !.drew = Covered(b), !.notified = 1]

InitLive == BaseLayerDone(ModelZoom)

NextLive ==
    \/ \E lon \in Lons : update(lon)
    \/ \E i \in Slots, ok \in BOOLEAN : tileDone(i, ok)

\* Slot i's pending fetch settles, and settles successfully if slot i is
\* fetched again and again.
FetchFair(i) == SF_vars(tileDone(i, TRUE))

LiveSpec ==
    /\ InitLive
    /\ [][NextLive]_vars
    /\ WF_vars(\E lon \in Lons : update(lon))
    /\ \A i \in ModelSlots : FetchFair(i)

AllLoaded == \A i \in Slots : tilesLoaded[i]

\* Every slot Loaded and the progress figure at 100.
Complete == AllLoaded /\ getProgress = 100

\* C8: eventual completion - under LiveSpec every target-zoom slot is
\* eventually Loaded and getProgress() returns 100.
C8_EventualCompletion == <>Complete

\* C8 witness: everything is loaded after at least one fetch had failed and
\* been retried (a slot shows its tile although a failure was just observed).
C8_Witness == Complete /\ fx.op = "tileDone" /\ ~fx.ok

(***************************************************************************)
(* The deployed 8 x 8 grid: one update() on a fresh manager whose base     *)
(* layer is painted, then completions of the fetches it caused             *)
(***************************************************************************)

InitDeployed == BaseLayerDone(targetZoom)

\* The only update() call of these scenarios.
singleUpdate(lon) == Fresh /\ update(lon)

\* Number of fetches of the single update() that have settled.
Settled == Cardinality(Slots) - Len(queue) - InFlightTotal

\* At most MaxSettled completions are followed.
MaxSettled == 4

NextOrder ==
    \/ \E lon \in Lons : singleUpdate(lon)
    \/ /\ Settled < MaxSettled
       /\ \E i \in Slots, ok \in BOOLEAN : tileDone(i, ok)

\* One update() at either longitude and the first completions after it.
OrderSpec == InitDeployed /\ [][NextOrder]_vars

\* The longitude of the drain scenario: update(0).
DrainLon == 0

\* The request for slot i is dispatched before the one for slot j after
\* update(DrainLon) on a fresh manager.
DispatchedBefore(i, j) ==
    LET di == Dist(SlotX(i), SlotY(i), CenterX(DrainLon))
        dj == Dist(SlotX(j), SlotY(j), CenterX(DrainLon))
    IN  di < dj \/ (di = dj /\ i < j)

\* Number of requests dispatched after the one for slot i.
Overtaken(i) ==
    Cardinality({j \in Slots : ~Queued(j) /\ DispatchedBefore(i, j)})

\* A pending fetch is overtaken by at most MaxOvertake later dispatches.
MaxOvertake == 7

\* The fetch for slot (0,0) fails, every other fetch succeeds; completions
\* come in any order within the MaxOvertake window.
fetchSettles(i) ==
    /\ inflight[i] > 0
    /\ queue # <<>> =>
           \A k \in Slots \ {i} : inflight[k] > 0 => Overtaken(k) < MaxOvertake
    /\ tileDone(i, i # Index(0, 0))

NextDrain ==
    \/ singleUpdate(DrainLon)
    \/ \E i \in Slots : fetchSettles(i)

\* update(0) on a fresh manager and every completion it leads to.
DrainSpec == InitDeployed /\ [][NextDrain]_vars

\* priority * 360 of slot i for the view centre cx (in 1/360 tile):
\* min(|x - cx|, N - |x - cx|) + 0.5 * |y - N/2 - 0.5|.
WrappedPriority(i, cx) ==
    LET d == Abs(SlotX(i) * 360 - cx)
        w == numTilesX * 360 - d
    IN  (IF d < w THEN d ELSE w) + 90 * Abs(2 * SlotY(i) - numTilesX - 1)

\* C11: priority ordering - update(v) on a fresh manager sorts the queue
\* ascending by priority = distX + 0.5 * distY with ties in insertion (flat
\* index) order, and processQueue dispatches from the head: the first
\* MAX_CONCURRENT_REQUESTS entries are started by update(), each completion
\* starts the next head; for centerX = 0 on the 8 x 8 grid and equal y the
\* request for x = 0 is ahead of the one for x = 1, which is ahead of x = 4.
C11_PriorityOrdering ==
    [][/\ \A lon \in Lons :
            singleUpdate(lon) =>
                LET s == Requeued(queue, CenterX(lon))
                    at(k) == Index(s[k].x, s[k].y)
                    pos(x, y) == CHOOSE k \in 1 .. Len(s) : s[k].x = x /\ s[k].y = y
                IN  /\ \A k \in 1 .. Len(s) - 1 :
                           \/ WrappedPriority(at(k), CenterX(lon))
                                  < WrappedPriority(at(k + 1), CenterX(lon))
                           \/ /\ WrappedPriority(at(k), CenterX(lon))
                                     = WrappedPriority(at(k + 1), CenterX(lon))
                              /\ at(k) < at(k + 1)
                    /\ \A k \in 1 .. Len(s) :
                           IF k <= MAX_CONCURRENT_REQUESTS
                           THEN inflight'[at(k)] = 1
                           ELSE /\ inflight'[at(k)] = 0
                                /\ queue'[k - MAX_CONCURRENT_REQUESTS] = s[k]
                    /\ (CenterX(lon) = 0 /\ numTilesX = 8) =>
                           \A y \in 0 .. numTilesX - 1 :
                               pos(0, y) < pos(1, y) /\ pos(1, y) < pos(4, y)
       /\ \A i \in Slots, ok \in BOOLEAN :
            (tileDone(i, ok) /\ ~isDestroyed /\ queue # <<>>) =>
                /\ queue' = Tail(queue)
                /\ inflight'[Index(Head(queue).x, Head(queue).y)] = 1
      ]_vars

\* C11 witness: after update(-180) (centerX = 0) on the fresh 8 x 8 manager and
\* one completion, the request for (0,2) has left the head and is in flight
\* and (1,4), of the same priority and next in flat-index order, is the head.
C11_Witness ==
    /\ numTilesX = 8
    /\ fx.op = "tileDone"
    /\ inflight[Index(0, 2)] = 1
    /\ queue # <<>>
    /\ Head(queue) = [x |-> 1, y |-> 4, dist |-> 450]

\* Number of slots marked loaded.
LoadedCount == Cardinality({i \in Slots : tilesLoaded[i]})

\* p is the floor of 100 * loaded / total.
IsFloorPercent(p) ==
    /\ p * Cardinality(Slots) <= 100 * LoadedCount
    /\ 100 * LoadedCount < (p + 1) * Cardinality(Slots)

ProgressInRange == getProgress \in 0 .. 100 /\ IsFloorPercent(getProgress)

\* C12: progress monotonicity and range - getProgress() is an integer in
\* [0, 100] equal to floor(100 * loaded / total) in every state, and no
\* update(), completion or destroy() makes it smaller.
C12_ProgressMonotonic ==
    [](ProgressInRange) /\ [][getProgress' >= getProgress]_vars

\* C12 witness: half of the slots are loaded when a fetch fails on a
\* destroyed manager; progress stays at 50.
C12_Witness ==
    /\ getProgress = 50
    /\ isDestroyed
    /\ fx.op = "tileDone"
    /\ ~fx.ok

\* C13: end-to-end drain - on the fresh 8 x 8 manager, after the single
\* update(0), completed slots are loaded except (0,0), whose fetch fails; and
\* once every fetch has settled, (0,0) is not loaded, the other 63 slots are,
\* nothing is in flight, the queue is empty and getProgress() is 98.
C13_EndToEndDrain ==
    fx.op # "baseDone" =>
        /\ \A i \in Slots :
               tilesLoaded[i] <=>
                   (i # Index(0, 0) /\ ~Queued(i) /\ inflight[i] = 0)
        /\ InFlightTotal = 0 =>
               /\ ~tilesLoaded[Index(0, 0)]
               /\ \A i \in Slots \ {Index(0, 0)} : tilesLoaded[i]
               /\ queue = <<>>
               /\ activeRequests = 0
               /\ getProgress = 98

\* C13 witness: the last fetch of the drain has settled, 63 of 64 slots are
\* loaded and (0,0) is not.
C13_Witness ==
    /\ numTilesX = 8
    /\ fx.op = "tileDone"
    /\ InFlightTotal = 0
    /\ activeRequests = 0
    /\ queue = <<>>
    /\ ~tilesLoaded[Index(0, 0)]
    /\ LoadedCount = 63
    /\ getProgress = 98

\* The manager's own fields and the pending fetches.
managerState ==
    <<numTilesX, tilesLoaded, activeRequests, queue, isDestroyed, canvas,
      inflight, baseState, basePending>>

\* C14: destroy is idempotent and terminal - on a destroyed manager another
\* destroy() and every update() leave the state as it is, the manager stays
\* destroyed, the queue is and stays empty, and no fetch is started, neither
\* by update() nor by the re-drain of a completion.
C14_DestroyTerminal ==
    [][isDestroyed =>
          /\ isDestroyed'
          /\ queue = <<>> /\ queue' = <<>>
          /\ \A i \in Slots : ~DispatchedFor(i)
          /\ destroy => UNCHANGED managerState
          /\ \A lon \in Lons : update(lon) => UNCHANGED managerState
      ]_vars

\* C14 witness: update() was called on a destroyed manager while fetches
\* started before destroy() are still pending.
C14_Witness ==
    /\ isDestroyed
    /\ fx.op = "update"
    /\ InFlightTotal > 0
    /\ queue = <<>>

\* C15: self-sustaining pump - while the manager is not destroyed, in every
\* state between operations a non-empty queue means the in-flight window is
\* full: activeRequests = MAX_CONCURRENT_REQUESTS.
C15_PumpKeepsWindowFull ==
    (~isDestroyed /\ queue # <<>>) => activeRequests = MAX_CONCURRENT_REQUESTS

\* C15 witness: a completion handler has returned on a live manager and
\* requests are still waiting behind a full window.
C15_Witness ==
    /\ ~isDestroyed
    /\ fx.op = "tileDone"
    /\ queue # <<>>
    /\ activeRequests = MAX_CONCURRENT_REQUESTS

\* C16: no automatic immediate retry - when the fetch for a slot fails, the
\* re-drain run by that completion does not start a new fetch for the same
\* slot; only a later update() can bring the slot back.
C16_NoImmediateRetry ==
    [][\A i \in Slots :
          tileDone(i, FALSE) => inflight'[i] = inflight[i] - 1
      ]_vars

\* distX * 360 of slot i for the view centre cx: min(|x - cx|, N - |x - cx|).
WrappedDistX(i, cx) ==
    LET d == Abs(SlotX(i) * 360 - cx)
        w == numTilesX * 360 - d
    IN  IF d < w THEN d ELSE w

\* Number of queue entries this step adds for slot i: entries of the new
\* queue and newly started fetches, less the entries that were there before.
AddedFor(i) ==
    Count(queue', i) + (inflight'[i] - inflight[i]) - Count(queue, i)

\* C17: admission filter exactness - update(v) on a live manager adds exactly
\* one request for every slot that is not loaded, not in the pending queue
\* and has distX < tilesPerSide/2 + 1, and none for any other slot (a slot
\* with distX = tilesPerSide/2 + 1 fails the strict test).
C17_AdmissionExact ==
    [][\A lon \in Lons :
          (~isDestroyed /\ fx'.op = "update" /\ update(lon)) =>
              \A i \in Slots :
                  AddedFor(i) =
                      IF /\ ~tilesLoaded[i]
                         /\ ~Queued(i)
                         /\ WrappedDistX(i, CenterX(lon)) < numTilesX * 180 + 360
                      THEN 1 ELSE 0
      ]_vars

\* C17 witness: update() has run on a live manager that has a loaded slot and
\* a queued slot (both skipped) and a slot that is neither.
C17_Witness ==
    /\ ~isDestroyed
    /\ fx.op = "update"
    /\ \E i \in Slots : tilesLoaded[i]
    /\ \E i \in Slots : ~tilesLoaded[i] /\ Queued(i)
    /\ \E i \in Slots : ~tilesLoaded[i] /\ ~Queued(i) /\ inflight[i] > 0

(***************************************************************************)
(* The deployed 8 x 8 grid from construction: the base layer of 4 x 4      *)
(* tiles, then one update() and the first completions                      *)
(***************************************************************************)

\* Settled base fetches whose rectangle shows no base tile.
BaseFailures ==
    Cardinality({b \in BaseTiles \ basePending :
                    \A i \in Covered(b) : canvas[i] = "background"})

\* A base fetch settles while fewer than MaxBaseAhead earlier ones are pending.
MaxBaseAhead == 2

\* At most MaxBaseFailures base fetches fail.
MaxBaseFailures == 1

baseSettles(b, ok) ==
    /\ b \in basePending
    /\ Cardinality({c \in basePending : c < b}) < MaxBaseAhead
    /\ ~ok => BaseFailures < MaxBaseFailures
    /\ baseDone(b, ok)

NextBase ==
    \/ loadBaseLayer
    \/ \E b \in BaseTiles, ok \in BOOLEAN : baseSettles(b, ok)
    \/ /\ baseState = "resolved"
       /\ \E lon \in Lons : singleUpdate(lon)
    \/ /\ Settled < MaxSettled
       /\ \E i \in Slots, ok \in BOOLEAN : tileDone(i, ok)

BaseSpec == Constructed(targetZoom) /\ [][NextBase]_vars

\* C18: base-layer fault tolerance - loadBaseLayer() starts the fetches of
\* all base tiles at once without counting them in activeRequests, its
\* promise is resolved exactly when every base fetch has settled, whatever
\* the outcomes; a failed base fetch leaves the canvas and the target-tile
\* state as they were; and afterwards update() still schedules every slot
\* that is not loaded and a successful target fetch loads and draws its slot.
C18_BaseLayerFaultTolerant ==
    /\ [](Mounted => (baseState = "resolved" <=> basePending = {}))
    /\ [][/\ fx'.op = "loadBaseLayer" =>
                /\ basePending' = BaseTiles
                /\ activeRequests' = activeRequests
          /\ (fx'.op = "baseDone" /\ ~fx'.ok) =>
                /\ canvas' = canvas
                /\ UNCHANGED <<tilesLoaded, queue, activeRequests, inflight>>
          /\ (fx'.op = "update" /\ ~isDestroyed) =>
                \A i \in Slots :
                    ~tilesLoaded[i] =>
                        InQueue(queue', SlotX(i), SlotY(i)) \/ inflight'[i] > 0
          /\ (fx'.op = "tileDone" /\ fx'.ok /\ ~isDestroyed) =>
                /\ fx'.drew # {}
                /\ \A i \in fx'.drew : tilesLoaded'[i] /\ canvas'[i] = "tile"
         ]_vars

\* C18 witness: all 16 base fetches have settled and one of them failed; its
\* rectangle still shows the background except where a target tile was
\* loaded afterwards.
C18_Witness ==
    /\ baseState = "resolved"
    /\ Cardinality(BaseTiles) > MAX_CONCURRENT_REQUESTS
    /\ \E b \in BaseTiles :
           /\ \A i \in Covered(b) : canvas[i] # "base"
           /\ \E i \in Covered(b) : canvas[i] = "tile" /\ tilesLoaded[i]
           /\ \E i \in Covered(b) : canvas[i] = "background"

\* C19: notification matches draws - an operation calls onTextureUpdate once
\* if it drew a tile (target or base) and not at all otherwise: never for a
\* failed fetch, never from update(), destroy() or loadBaseLayer() itself;
\* when it is called for a target tile the slot is already marked loaded and
\* the tile is on the canvas.
C19_NotifyMatchesDraws ==
    /\ fx.notified = (IF fx.drew # {} THEN 1 ELSE 0)
    /\ fx.op \in {"none", "loadBaseLayer", "update", "destroy"} => fx.notified = 0
    /\ ~fx.ok => fx.notified = 0
    /\ (fx.op = "tileDone" /\ fx.notified = 1) =>
           \A i \in fx.drew : tilesLoaded[i] /\ canvas[i] = "tile"
    /\ (fx.op = "baseDone" /\ fx.notified = 1) =>
           \A i \in fx.drew : canvas[i] = "base"

\* C19 witness: a target fetch succeeded on a live manager; its slot is
\* marked loaded and drawn and onTextureUpdate was called once.
C19_Witness ==
    /\ fx.op = "tileDone"
    /\ fx.ok
    /\ fx.notified = 1
    /\ fx.drew # {}
    /\ \A i \in fx.drew : tilesLoaded[i] /\ canvas[i] = "tile"

\* C20: queue uniqueness - the pending queue holds at most one entry per
\* slot in every reachable state.
C20_QueueUnique ==
    \A j, k \in 1 .. Len(queue) :
        (queue[j].x = queue[k].x /\ queue[j].y = queue[k].y) => j = k

\* C20 witness: update() has run with requests already waiting; the queue
\* is still waiting behind a full window on a live manager.
C20_Witness ==
    /\ ~isDestroyed
    /\ fx.op = "update"
    /\ Len(queue) >= 2
    /\ \E i \in Slots : tilesLoaded[i]

\* C21: in-flight accounting - in every reachable state, destroyed or not,
\* activeRequests is the number of fetches started by processQueue that have
\* not settled; it is never negative, and it is 0 once no fetch is
\* outstanding and the queue is empty.
C21_InFlightAccounting ==
    /\ activeRequests = InFlightTotal
    /\ activeRequests >= 0
    /\ (InFlightTotal = 0 /\ queue = <<>>) => activeRequests = 0

\* C21 witness: the last outstanding fetch settled after destroy(); the
\* counter is back at 0 although some slot never got loaded.
C21_Witness ==
    /\ isDestroyed
    /\ fx.op = "tileDone"
    /\ InFlightTotal = 0
    /\ activeRequests = 0
    /\ queue = <<>>
    /\ \E i \in Slots : ~tilesLoaded[i]

====
